---- MODULE Spec2Model ----
(***************************************************************************)
(* AgroIrriga Pro backend (src/backend/app/main.py): the MQTT ingestion    *)
(* callback, the valve / smart-irrigation endpoints, the decision function *)
(* and the WebSocket notifier, as one state machine.                       *)
(*                                                                         *)
(* Conventions                                                             *)
(*  - A Python value that may be None is a sequence of length 0 or 1:      *)
(*    None is <<>>, the value v is <<v>>.                                  *)
(*  - Floats are integers; a confidence is counted in hundredths.          *)
(*  - Every call of datetime.utcnow() reads the variable clock and         *)
(*    advances it, so rows written later carry later timestamps.           *)
(*  - The SQL store (SessionLocal, not part of main.py) keeps the rows it  *)
(*    is given; tables are sequences of rows in insertion order.           *)
(*  - mqtt_client.publish never raises: without a connection paho returns  *)
(*    a result code (MQTT_ERR_NO_CONN) that main.py does not read.         *)
(*    published is the log of publish calls, each with its result code.    *)
(*  - An async handler without an await in its body runs as one step; a    *)
(*    notify_clients task runs from one await to the next as one step.     *)
(*                                                                         *)
(* Specifications                                                          *)
(*    SpecDecide    make_irrigation_decision applied to bounded arguments  *)
(*    SpecDispatch  control_valve, all_valves_off, smart_irrigation and    *)
(*                  the MQTT connection going down and up                  *)
(*    SpecIngest    on_mqtt_message and get_valves_status                  *)
(*    SpecNotify    notify_clients tasks, websocket_endpoint, and          *)
(*                  on_mqtt_message creating the tasks                     *)
(*    Spec          all of them together                                   *)
(* The dispatch endpoints write published and irrigation_events and read   *)
(* weather_readings; the ingestion writes solenoid_states,                 *)
(* weather_readings and tasks; the notifier writes connected_clients and   *)
(* received.  A step property of one part is not affected by the steps of  *)
(* another, which leave the variables it reads unchanged, except that the  *)
(* reading smart_irrigation takes from weather_readings may come from the  *)
(* ingestion: Init lets the table hold any reading of StoredWeather.       *)
(***************************************************************************)
EXTENDS Integers, Sequences, FiniteSets, TLC

(* ------------------------------ bounds --------------------------------- *)
\* API calls (control, all-off, schedule, smart) in one behaviour
MaxCalls == 2
\* inbound MQTT messages in one behaviour
MaxMsgs == 2
MaxFires == 3

(* ------------------------- program constants --------------------------- *)
FirstValve == 1
LastValve == 10
RainLimit == 5
HumidityHigh == 70
TemperatureHot == 30
HumidityLow == 40
HeuristicConfidence == 70
HeuristicDuration == 25
MlDuration == 30
DefaultTemperature == 25
DefaultHumidity == 60
DefaultRain == 0

(* --------------------------- Python's None ----------------------------- *)
None == <<>>
Some(v) == <<v>>
IsNone(x) == x = <<>>
Val(x) == x[1]

(* ------------------------------ inputs --------------------------------- *)
Temperatures == {None, Some(25), Some(30), Some(31)}
Humidities == {None, Some(39), Some(40), Some(70), Some(71)}
Rains == {None, Some(0), Some(5), Some(6)}
Pressures == {None, Some(1013)}

\* attributes of a WeatherReading row that the program reads back
WeatherValues ==
    [temperature : Temperatures, humidity : Humidities,
     rain_1h : Rains, pressure : Pressures]

\* the predictive model loaded at startup: a pure function of the features,
\* or a model whose predict raises
Predictors == {"never", "always", "hot", "broken"}

Zones == {1, 2}

\* websocket connections that may be opened
Observers == {"a", "b", "c"}

(* --------------------------- decision engine --------------------------- *)
\* model.predict(features)[0] and model.predict_proba(features)[0].max()
Predict(model, features) ==
    CASE model = "never" -> [raised |-> FALSE, label |-> 0, confidence |-> 90]
      [] model = "always" -> [raised |-> FALSE, label |-> 1, confidence |-> 80]
      [] model = "hot" ->
            IF IsNone(features[1])
            THEN [raised |-> TRUE]
            ELSE IF Val(features[1]) > 28
                 THEN [raised |-> FALSE, label |-> 1, confidence |-> 60]
                 ELSE [raised |-> FALSE, label |-> 0, confidence |-> 60]
      [] OTHER -> [raised |-> TRUE]

\* features = [temperature, humidity, rain_1h], defaults when weather is None
Features(weather) ==
    IF IsNone(weather)
    THEN <<Some(DefaultTemperature), Some(DefaultHumidity), Some(DefaultRain)>>
    ELSE <<Val(weather).temperature, Val(weather).humidity, Val(weather).rain_1h>>

Decision(should, conf, reason, valves, duration) ==
    [raised |-> "", should_irrigate |-> should, confidence |-> conf,
     reason |-> reason, valves_to_open |-> valves, duration_minutes |-> duration]

Raised(exc) == [raised |-> exc]

\* IsHot with >= in place of >
IsHotInclusive(w) == Val(w.temperature) >= TemperatureHot

\* weather.temperature > 30
IsHot(w) == Val(w.temperature) > TemperatureHot

\* HeuristicRules with the water-stress rule tested before the rain rule
HeuristicRulesStressFirst(w) ==
    IF IsNone(w.temperature) THEN Raised("TypeError")
    ELSE IF IsNone(w.humidity) THEN Raised("TypeError")
    ELSE IF IsHot(w) /\ Val(w.humidity) < HumidityLow
    THEN Decision(TRUE, HeuristicConfidence, "Condicoes de estresse hidrico",
                  <<1, 2>>, HeuristicDuration)
    ELSE IF IsNone(w.rain_1h) THEN Raised("TypeError")
    ELSE IF Val(w.rain_1h) > RainLimit
    THEN Decision(FALSE, HeuristicConfidence, "Chuva recente detectada",
                  <<>>, HeuristicDuration)
    ELSE IF Val(w.humidity) > HumidityHigh
    THEN Decision(FALSE, HeuristicConfidence, "Umidade ambiente alta",
                  <<>>, HeuristicDuration)
    ELSE Decision(FALSE, HeuristicConfidence, "", <<>>, HeuristicDuration)

\* the heuristic rules on a reading that is not None, first match wins;
\* comparing a None attribute with a number raises TypeError
HeuristicRules(w) ==
    IF IsNone(w.rain_1h) THEN Raised("TypeError")
    ELSE IF Val(w.rain_1h) > RainLimit
    THEN Decision(FALSE, HeuristicConfidence, "Chuva recente detectada",
                  <<>>, HeuristicDuration)
    ELSE IF IsNone(w.humidity) THEN Raised("TypeError")
    ELSE IF Val(w.humidity) > HumidityHigh
    THEN Decision(FALSE, HeuristicConfidence, "Umidade ambiente alta",
                  <<>>, HeuristicDuration)
    ELSE IF IsNone(w.temperature) THEN Raised("TypeError")
    ELSE IF IsHot(w) /\ Val(w.humidity) < HumidityLow
    THEN Decision(TRUE, HeuristicConfidence, "Condicoes de estresse hidrico",
                  <<1, 2>>, HeuristicDuration)
    ELSE Decision(FALSE, HeuristicConfidence, "", <<>>, HeuristicDuration)

\* Heuristic without the test "if weather": None has no attribute rain_1h
HeuristicNoGuard(weather) ==
    IF IsNone(weather)
    THEN Raised("AttributeError")
    ELSE HeuristicRules(Val(weather))

\* the branch taken when no model is configured
Heuristic(weather) ==
    IF IsNone(weather)
    THEN Decision(FALSE, HeuristicConfidence, "", <<>>, HeuristicDuration)
    ELSE HeuristicRules(Val(weather))

\* the branch taken when a model is configured
MlDecision(weather, model) ==
    LET p == Predict(model, Features(weather))
    IN IF p.raised
       THEN Raised("PredictError")
       ELSE Decision(p.label = 1, p.confidence, "ml_prediction",
                     <<1, 2, 3>>, MlDuration)

make_irrigation_decision(weather, last_irrigation, model) ==
    IF ~IsNone(model)
    THEN MlDecision(weather, Val(model))
    ELSE Heuristic(weather)

(* ------------------------------- state ---------------------------------- *)
VARIABLES
    published,          \* calls of mqtt_client.publish, with their result code
    irrigation_events,  \* table irrigation_events
    solenoid_states,    \* table solenoid_states
    weather_readings,   \* table weather_readings
    connected_clients,  \* the list connected_clients
    sessions,           \* websockets whose websocket_endpoint is in its loop
    tasks,              \* notify_clients tasks created and not yet finished
    received,           \* per websocket, the frames send_json delivered
    stayed,             \* per task, the websockets listed since its creation
    nmsgs,              \* inbound MQTT messages handled so far
    loop_alive,         \* whether paho's network thread still runs
    outbox,             \* per websocket, the tasks whose send_json is pending
    smart_runs,         \* per zone, how often smart_irrigation has run
    irrigation_schedules, \* table irrigation_schedules
    scheduler,          \* the two periodic tasks and the process they run in
    ml_model,           \* the global ml_model: None or Some(predictor)
    mqttUp,             \* whether the MQTT client holds a connection
    clock,              \* the next value datetime.utcnow() returns
    ncalls,             \* API calls made so far
    call                \* the last operation invoked, its arguments and outcome

vars == <<published, irrigation_events, solenoid_states, weather_readings,
          connected_clients, sessions, tasks, received, stayed, nmsgs,
          loop_alive, outbox, smart_runs, irrigation_schedules, scheduler,
          ml_model, mqttUp, clock, ncalls, call>>

\* what only some of the operations touch
others == <<loop_alive, outbox, smart_runs, irrigation_schedules, scheduler>>

notifier == <<connected_clients, sessions, tasks, received>>

\* readings the weather table may hold from an earlier run of the process
StoredWeather ==
    {[temperature |-> Some(31), humidity |-> Some(39), rain_1h |-> Some(0),
      pressure |-> None],
     [temperature |-> Some(31), humidity |-> Some(39), rain_1h |-> Some(6),
      pressure |-> None],
     [temperature |-> Some(25), humidity |-> Some(71), rain_1h |-> Some(0),
      pressure |-> None],
     [temperature |-> None, humidity |-> Some(39), rain_1h |-> Some(5),
      pressure |-> None]}

WeatherRow(w, ts, device_id) ==
    [values |-> w, timestamp |-> ts, device_id |-> device_id]

Init ==
    /\ published = <<>>
    /\ irrigation_events = <<>>
    /\ solenoid_states = <<>>
    /\ weather_readings \in {<<>>} \cup {<<WeatherRow(w, 0, "unknown")>> : w \in StoredWeather}
    /\ connected_clients = <<>>
    /\ sessions = [o \in Observers |-> "new"]
    /\ tasks = <<>>
    /\ stayed = <<>>
    /\ received = [o \in Observers |-> <<>>]
    /\ nmsgs = 0
    /\ loop_alive = TRUE
    /\ outbox = [o \in Observers |-> <<>>]
    /\ smart_runs = [z \in Zones |-> 0]
    /\ irrigation_schedules = <<>>
    /\ scheduler = [running |-> TRUE,
                    weather_task |-> "sleeping", weather_fires |-> 0,
                    advisor_task |-> "sleeping", advisor_fires |-> 0]
    /\ ml_model \in {None} \cup {Some(m) : m \in Predictors}
    /\ mqttUp = TRUE
    /\ clock = 1
    /\ ncalls = 0
    /\ call = [op |-> "none"]

(* ------------------------------ queries --------------------------------- *)
\* Queries take the rows that pass the filter as a set of positions.
\* the same query ordered by timestamp ascending
OldestRow(table, idx) ==
    IF idx = {} THEN None
    ELSE Some(table[CHOOSE i \in idx :
                  \A j \in idx : table[i].timestamp <= table[j].timestamp])

\* query.filter(...).order_by(timestamp.desc()).first()
LatestRow(table, idx) ==
    IF idx = {} THEN None
    ELSE Some(table[CHOOSE i \in idx :
                  \A j \in idx : table[i].timestamp >= table[j].timestamp])

\* the WeatherReading object smart_irrigation hands to the decision
CurrentWeather ==
    LET row == LatestRow(weather_readings, 1..Len(weather_readings))
    IN IF IsNone(row) THEN None ELSE Some(Val(row).values)

LastIrrigation(zone_id) ==
    LatestRow(irrigation_events,
              {i \in 1..Len(irrigation_events) :
                  irrigation_events[i].zone_id = zone_id})

(* ------------------------- command dispatch ----------------------------- *)
ValveInputs == {0, 1, 10, 11}
Durations == {15}

\* ValveInRange that lets valve 0 through
ValveInRangeFromZero(valve_number) ==
    ~(valve_number < 0 \/ valve_number > LastValve)

\* the negation of: valve_number < 1 or valve_number > 10
ValveInRange(valve_number) ==
    ~(valve_number < FirstValve \/ valve_number > LastValve)

\* mqtt_client.publish(topic, payload): the call and the code it returns
PublishResult == IF mqttUp THEN "MQTT_ERR_SUCCESS" ELSE "MQTT_ERR_NO_CONN"
Sent(payload) == [payload |-> payload, rc |-> PublishResult]

ValvePayload(valve_number, state, duration_minutes, ts) ==
    [action |-> IF state THEN "valve_on" ELSE "valve_off",
     valve |-> valve_number,
     duration |-> IF state THEN duration_minutes ELSE 0,
     timestamp |-> ts,
     source |-> "web_api"]

\* columns not given take the column default (zone_id 1) or NULL
ManualEvent(valve_number, state, duration_minutes, ts) ==
    [valve_number |-> Some(valve_number),
     zone_id |-> 1,
     action |-> IF state THEN "ON" ELSE "OFF",
     duration_minutes |-> IF state THEN Some(duration_minutes) ELSE None,
     triggered_by |-> "manual",
     confidence |-> None,
     timestamp |-> ts]

control_valve(valve_number, state, duration_minutes) ==
    /\ ncalls < MaxCalls
    /\ ncalls' = ncalls + 1
    /\ IF ~ValveInRange(valve_number)
       THEN /\ call' = [op |-> "control_valve", valve |-> valve_number,
                        state |-> state, status |-> 400]
            /\ UNCHANGED <<published, irrigation_events, clock>>
       ELSE /\ published' = Append(published,
                Sent(ValvePayload(valve_number, state, duration_minutes, clock)))
            /\ irrigation_events' = Append(irrigation_events,
                ManualEvent(valve_number, state, duration_minutes, clock + 1))
            /\ clock' = clock + 2
            /\ call' = [op |-> "control_valve", valve |-> valve_number,
                        state |-> state, status |-> 200]
    /\ UNCHANGED <<solenoid_states, weather_readings, notifier, stayed, nmsgs, others,
                   ml_model, mqttUp>>

ControlValve ==
    \E v \in ValveInputs, state \in BOOLEAN, d \in Durations :
        control_valve(v, state, d)

all_valves_off ==
    /\ ncalls < MaxCalls
    /\ ncalls' = ncalls + 1
    /\ published' = Append(published,
            Sent([action |-> "valve_all_off", timestamp |-> clock]))
    /\ clock' = clock + 1
    /\ call' = [op |-> "all_valves_off", status |-> 200]
    /\ UNCHANGED <<irrigation_events, solenoid_states, weather_readings,
                   notifier, stayed, nmsgs, others, ml_model, mqttUp>>

AllValvesOff == all_valves_off

SmartPayload(valve, decision) ==
    [action |-> "valve_on", valve |-> valve,
     duration |-> decision.duration_minutes, reason |-> "ml_recommendation"]

SmartEvent(zone_id, decision, ts) ==
    [valve_number |-> None,
     zone_id |-> zone_id,
     action |-> "SMART_ON",
     duration_minutes |-> Some(decision.duration_minutes),
     triggered_by |-> "ml_model",
     confidence |-> Some(decision.confidence),
     timestamp |-> ts]

\* SmartCommands that stops before the last valve
SmartCommandsButLast(decision) ==
    [i \in 1..(Len(decision.valves_to_open) - 1) |->
        Sent(SmartPayload(decision.valves_to_open[i], decision))]

\* the loop "for valve in valves: publish(...)"
SmartCommands(decision) ==
    [i \in 1..Len(decision.valves_to_open) |->
        Sent(SmartPayload(decision.valves_to_open[i], decision))]

smart_irrigation(zone_id) ==
    LET decision == make_irrigation_decision(
                        CurrentWeather, LastIrrigation(zone_id), ml_model)
    IN /\ ncalls < MaxCalls
       /\ ncalls' = ncalls + 1
       /\ smart_runs' = [smart_runs EXCEPT ![zone_id] = @ + 1]
       /\ IF decision.raised # ""
          THEN /\ call' = [op |-> "smart_irrigation", zone_id |-> zone_id,
                           status |-> 500, raised |-> decision.raised]
               /\ UNCHANGED <<published, irrigation_events, clock>>
          ELSE /\ call' = [op |-> "smart_irrigation", zone_id |-> zone_id,
                           status |-> 200, decision |-> decision]
               /\ IF decision.should_irrigate
                  THEN /\ published' = published \o SmartCommands(decision)
                       /\ irrigation_events' = Append(irrigation_events,
                              SmartEvent(zone_id, decision, clock))
                       /\ clock' = clock + 1
                  ELSE UNCHANGED <<published, irrigation_events, clock>>
       /\ UNCHANGED <<solenoid_states, weather_readings, notifier, stayed,
                      nmsgs, loop_alive, outbox, irrigation_schedules,
                      scheduler, ml_model, mqttUp>>

SmartIrrigation == \E z \in Zones : smart_irrigation(z)

\* The request body of schedule_irrigation, read as the handler reads it:
\* an object with the columns of IrrigationSchedule.
Schedules ==
    [valve_number : ValveInputs, duration_minutes : Durations,
     start_time : {[hour |-> 6, minute |-> 0]}, days_of_week : {<<1, 3, 5>>},
     active : BOOLEAN, weather_dependent : {TRUE}]

ScheduleRow(schedule, id, ts) ==
    [id |-> id,
     valve_number |-> schedule.valve_number,
     zone_id |-> 1,
     start_time |-> schedule.start_time,
     duration_minutes |-> schedule.duration_minutes,
     days_of_week |-> schedule.days_of_week,
     active |-> schedule.active,
     weather_dependent |-> schedule.weather_dependent,
     created_at |-> ts]

SchedulePayload(schedule) ==
    [action |-> "schedule_irrigation",
     valve |-> schedule.valve_number,
     duration |-> schedule.duration_minutes,
     start_hour |-> schedule.start_time.hour,
     start_minute |-> schedule.start_time.minute]

schedule_irrigation(schedule) ==
    LET id == Len(irrigation_schedules) + 1
    IN /\ ncalls < MaxCalls
       /\ ncalls' = ncalls + 1
       /\ irrigation_schedules' =
            Append(irrigation_schedules, ScheduleRow(schedule, id, clock))
       /\ clock' = clock + 1
       /\ published' = IF schedule.active
                       THEN Append(published, Sent(SchedulePayload(schedule)))
                       ELSE published
       /\ call' = [op |-> "schedule_irrigation",
                   valve |-> schedule.valve_number, status |-> 200,
                   schedule_id |-> id]
       /\ UNCHANGED <<irrigation_events, solenoid_states, weather_readings,
                      notifier, stayed, nmsgs, loop_alive, outbox, smart_runs,
                      scheduler, ml_model, mqttUp>>

ScheduleIrrigation == \E schedule \in Schedules : schedule_irrigation(schedule)

\* the broker connection is lost or comes back (paho's network loop)
MqttDisconnect ==
    /\ mqttUp
    /\ mqttUp' = FALSE
    /\ UNCHANGED <<published, irrigation_events, solenoid_states,
                   weather_readings, notifier, stayed, nmsgs, others, ml_model, clock,
                   ncalls, call>>

MqttReconnect ==
    /\ scheduler.running
    /\ ~mqttUp
    /\ mqttUp' = TRUE
    /\ UNCHANGED <<published, irrigation_events, solenoid_states,
                   weather_readings, notifier, stayed, nmsgs, others, ml_model, clock,
                   ncalls, call>>

NextDispatch ==
    \/ ControlValve
    \/ AllValvesOff
    \/ SmartIrrigation
    \/ ScheduleIrrigation
    \/ MqttDisconnect
    \/ MqttReconnect

SpecDispatch == Init /\ [][NextDispatch]_vars

(* ---------------------------- periodic tasks --------------------------- *)
\* weather_scheduler that gives up when the publish did not go out
AfterPublishChecked(rc) ==
    IF rc = "MQTT_ERR_SUCCESS" THEN "sleeping" ELSE "finished"

\* "while True": whatever publish returned, the task goes back to its sleep
AfterPublish(rc) == "sleeping"

\* one round of weather_scheduler: the sleep of two hours ends, the command
\* is published, the next sleep begins
weather_scheduler ==
    LET command == Sent([action |-> "read_weather_now", timestamp |-> clock])
    IN /\ scheduler.weather_task = "sleeping"
       /\ scheduler.weather_fires < MaxFires
       /\ published' = Append(published, command)
       /\ clock' = clock + 1
       /\ scheduler' = [scheduler EXCEPT
                           !.weather_fires = @ + 1,
                           !.weather_task = AfterPublish(command.rc)]
       /\ UNCHANGED <<irrigation_events, solenoid_states, weather_readings,
                      notifier, stayed, nmsgs, loop_alive, outbox, smart_runs,
                      irrigation_schedules, ml_model, mqttUp, ncalls, call>>

WeatherFire == weather_scheduler

\* one round of ml_irrigation_advisor: the sleep of six hours ends, a line
\* is printed, the next sleep begins
ml_irrigation_advisor ==
    /\ scheduler.advisor_task = "sleeping"
    /\ scheduler.advisor_fires < MaxFires
    /\ scheduler' = [scheduler EXCEPT !.advisor_fires = @ + 1]
    /\ UNCHANGED <<published, irrigation_events, solenoid_states,
                   weather_readings, notifier, stayed, nmsgs, loop_alive,
                   outbox, smart_runs, irrigation_schedules, ml_model,
                   mqttUp, clock, ncalls, call>>

AdvisorFire == ml_irrigation_advisor

\* the process stops: lifespan stops and disconnects the MQTT client, and
\* the event loop cancels the tasks still pending when it closes
Shutdown ==
    /\ scheduler.running
    /\ scheduler' = [scheduler EXCEPT !.running = FALSE,
                                      !.weather_task = "cancelled",
                                      !.advisor_task = "cancelled"]
    /\ mqttUp' = FALSE
    /\ UNCHANGED <<published, irrigation_events, solenoid_states,
                   weather_readings, notifier, stayed, nmsgs, loop_alive,
                   outbox, smart_runs, irrigation_schedules, ml_model, clock,
                   ncalls, call>>

NextSched ==
    \/ WeatherFire
    \/ AdvisorFire
    \/ MqttDisconnect
    \/ MqttReconnect
    \/ Shutdown

\* a sleep of the event loop ends once its time has passed
SpecSched == Init /\ [][NextSched]_vars /\ WF_vars(WeatherFire)

\* the first start: an empty database and no model file to load
InitFresh == Init /\ IsNone(ml_model) /\ weather_readings = <<>>

(* ------------------- the decision function on its own ------------------- *)
LastEvents == {None, Some([zone_id |-> 1, action |-> "SMART_ON", timestamp |-> 0])}

Decide ==
    \E w \in {None} \cup {Some(x) : x \in WeatherValues},
       last \in LastEvents,
       m \in {None} \cup {Some(p) : p \in Predictors} :
        /\ call.op = "none"
        /\ call' = [op |-> "decide", weather |-> w, last_irrigation |-> last,
                    model |-> m,
                    result |-> make_irrigation_decision(w, last, m)]
        /\ UNCHANGED <<published, irrigation_events, solenoid_states,
                       weather_readings, notifier, stayed, nmsgs, others, ml_model, mqttUp,
                       clock, ncalls>>

NextDecide == Decide

SpecDecide == Init /\ [][NextDecide]_vars

\* the last operation was decide with no model, and here are its parts
DecidedNoModel == call.op = "decide" /\ IsNone(call.model)
Returned(r) == r.raised = ""
HasNumber(w, f) == ~IsNone(w) /\ ~IsNone(Val(w)[f])
Num(w, f) == Val(Val(w)[f])

\* the reading is one the water-stress rule is reached and fires on
WaterStress(w) ==
    /\ HasNumber(w, "rain_1h") /\ Num(w, "rain_1h") <= RainLimit
    /\ HasNumber(w, "temperature") /\ Num(w, "temperature") > TemperatureHot
    /\ HasNumber(w, "humidity") /\ Num(w, "humidity") < HumidityLow

\* C2: with no model, a reading with rain_1h > 5, and a reading with
\* humidity > 70 and rain_1h <= 5, gives a Decision with should_irrigate
\* false, whatever the temperature and the other fields are.
C2_RainAndHumidityFirst ==
    (/\ DecidedNoModel
     /\ HasNumber(call.weather, "rain_1h")
     /\ \/ Num(call.weather, "rain_1h") > RainLimit
        \/ /\ HasNumber(call.weather, "humidity")
           /\ Num(call.weather, "humidity") > HumidityHigh)
    => (Returned(call.result) /\ ~call.result.should_irrigate)

\* a rainy reading that also meets the water-stress thresholds was decided
C2_Witness ==
    /\ DecidedNoModel
    /\ HasNumber(call.weather, "rain_1h")
    /\ Num(call.weather, "rain_1h") > RainLimit
    /\ HasNumber(call.weather, "temperature")
    /\ Num(call.weather, "temperature") > TemperatureHot
    /\ HasNumber(call.weather, "humidity")
    /\ Num(call.weather, "humidity") < HumidityLow
    /\ Returned(call.result)

C4_NeverIrrigatesBlind ==
    (DecidedNoModel /\ IsNone(call.weather)) =>
        /\ Returned(call.result)
        /\ ~call.result.should_irrigate
        /\ call.result.reason = ""
        /\ call.result.valves_to_open = <<>>

\* decide ran without weather and without model, with a last event given
C4_Witness ==
    /\ DecidedNoModel
    /\ IsNone(call.weather)
    /\ ~IsNone(call.last_irrigation)
    /\ Returned(call.result)

(* ---------------------------- MQTT ingestion ---------------------------- *)
\* A topic agroirriga/<device>/<kind>, as the subscriptions of on_mqtt_connect
\* deliver it.  A decoded payload is a JSON array or a JSON object; an object
\* is a record of its keys, an absent key being None.
MainDevice == "agroirriga_fazenda_01"
Topic(device, kind) == [device |-> device, kind |-> kind]

\* the topic words that occur inside a device identifier
WordsIn(device) == IF device = "status_probe" THEN {"status"} ELSE {}

\* word in topic
TopicHas(word, topic) == topic.kind = word \/ word \in WordsIn(topic.device)

Invalid == [json |-> "invalid"]
Array == [json |-> "array"]
Object(device_id, valves, w, alert_type) ==
    [json |-> "object", device_id |-> device_id, valves |-> valves,
     temperature |-> w.temperature, humidity |-> w.humidity,
     rain_1h |-> w.rain_1h, pressure |-> w.pressure, alert_type |-> alert_type]
Entry(number, state) == [number |-> number, state |-> state]

NoWeather ==
    [temperature |-> None, humidity |-> None, rain_1h |-> None, pressure |-> None]
StatusObject(valves) == Object(Some("d1"), valves, NoWeather, None)

On3 == Entry(Some(3), Some("ON"))
Off3 == Entry(Some(3), Some("OFF"))
On4 == Entry(Some(4), Some("ON"))
Off4 == Entry(Some(4), Some("OFF"))
NoNumber == Entry(None, Some("ON"))

StatusPayloads ==
    {StatusObject(None)} \cup
    {StatusObject(Some(b)) :
        b \in {<<On3>>, <<Off3>>, <<On3, On4>>, <<Off4, Off3>>, <<On3, Off3>>,
               <<On4, NoNumber>>}}

WeatherPayloads ==
    {Object(Some("d1"), None, w, None) :
        w \in {[temperature |-> Some(31), humidity |-> Some(39),
                rain_1h |-> Some(0), pressure |-> Some(1013)],
               [temperature |-> Some(25), humidity |-> Some(150),
                rain_1h |-> Some(0 - 3), pressure |-> None],
               [temperature |-> Some(20), humidity |-> None,
                rain_1h |-> None, pressure |-> None]}}

AlertPayloads ==
    {Object(None, None, NoWeather, Some("overcurrent")),
     Object(None, None, NoWeather, Some("low_pressure"))}

Message(topic, payload) == [topic |-> topic, payload |-> payload]

\* what the broker may deliver
InboundMessages ==
    {Message(Topic(MainDevice, "status"), p) :
        p \in StatusPayloads \cup {Invalid, Array}}
    \cup {Message(Topic(MainDevice, "weather"), p) :
        p \in WeatherPayloads \cup {Invalid, Array}}
    \cup {Message(Topic(MainDevice, "alerts"), p) :
        p \in AlertPayloads \cup {Array}}
    \cup {Message(Topic("status_probe", "weather"), p) : p \in WeatherPayloads}

\* the entries of the batch before the first one that lacks a key
RECURSIVE GoodPrefix(_)
GoodPrefix(valves) ==
    IF valves = <<>> THEN 0
    ELSE IF IsNone(valves[1].number) \/ IsNone(valves[1].state) THEN 0
    ELSE 1 + GoodPrefix(Tail(valves))

DeviceOf(data) ==
    IF IsNone(data.device_id) THEN "unknown" ELSE Val(data.device_id)

\* the rows save_valve_status adds and commits, the exception it raises, and
\* the number of utcnow() calls it makes
save_valve_status(data, now) ==
    IF data.json # "object"
    THEN [raised |-> "AttributeError", rows |-> <<>>, ticks |-> 0]
    ELSE LET valves == IF IsNone(data.valves) THEN <<>> ELSE Val(data.valves)
             good == GoodPrefix(valves)
         IN IF good < Len(valves)
            THEN [raised |-> "KeyError", rows |-> <<>>, ticks |-> good]
            ELSE [raised |-> "",
                  rows |-> [i \in 1..Len(valves) |->
                      [valve_number |-> Val(valves[i].number),
                       state |-> Val(valves[i].state) = "ON",
                       timestamp |-> now + i - 1,
                       device_id |-> DeviceOf(data)]],
                  ticks |-> Len(valves)]

save_weather_data(data, now) ==
    IF data.json # "object"
    THEN [raised |-> "AttributeError", rows |-> <<>>, ticks |-> 0]
    ELSE [raised |-> "",
          rows |-> <<WeatherRow([temperature |-> data.temperature,
                                 humidity |-> data.humidity,
                                 rain_1h |-> data.rain_1h,
                                 pressure |-> data.pressure],
                                now, DeviceOf(data))>>,
          ticks |-> 1]

handle_alert(data) ==
    IF data.json # "object"
    THEN [raised |-> "AttributeError", rows |-> <<>>, ticks |-> 0]
    ELSE [raised |-> "", rows |-> <<>>, ticks |-> 0]

\* the coroutine object notify_clients(message), not yet started
NewTask(message) ==
    [message |-> message, phase |-> "created", pos |-> 0, target |-> "",
     disconnected |-> <<>>, attempted |-> {}]

MqttUpdate(topic, payload) ==
    [type |-> "mqtt_update", topic |-> topic, data |-> payload]

\* except Exception: every exception the handler body raises is one
Caught(exc) ==
    exc \in {"JSONDecodeError", "AttributeError", "KeyError", "RuntimeError"}

\* asyncio.create_task raises RuntimeError when the calling thread runs no
\* event loop; loop_running says whether the callback's thread runs one.
\* An exception that leaves the callback ends paho's network thread.
on_mqtt_message(topic, payload, loop_running) ==
    LET kind == IF TopicHas("status", topic) THEN "status"
                ELSE IF TopicHas("weather", topic) THEN "weather"
                ELSE IF TopicHas("alerts", topic) THEN "alerts"
                ELSE "other"
        saved == CASE kind = "status" -> save_valve_status(payload, clock)
                   [] kind = "weather" -> save_weather_data(payload, clock)
                   [] kind = "alerts" -> handle_alert(payload)
                   [] OTHER -> [raised |-> "", rows |-> <<>>, ticks |-> 0]
        Outcome(o) == [op |-> "on_mqtt_message", topic |-> topic,
                       payload |-> payload, handled_as |-> kind, outcome |-> o]
    IN /\ nmsgs < MaxMsgs
       /\ loop_alive
       /\ nmsgs' = nmsgs + 1
       /\ IF payload.json = "invalid"
          THEN /\ call' = Outcome("JSONDecodeError")
               /\ UNCHANGED <<solenoid_states, weather_readings, clock, tasks,
                              stayed>>
          ELSE /\ clock' = clock + saved.ticks
               /\ solenoid_states' =
                    IF kind = "status" THEN solenoid_states \o saved.rows
                    ELSE solenoid_states
               /\ weather_readings' =
                    IF kind = "weather" THEN weather_readings \o saved.rows
                    ELSE weather_readings
               /\ IF saved.raised # ""
                  THEN /\ call' = Outcome(saved.raised)
                       /\ UNCHANGED <<tasks, stayed>>
                  ELSE IF ~loop_running
                  THEN /\ call' = Outcome("RuntimeError")
                       /\ UNCHANGED <<tasks, stayed>>
                  ELSE /\ call' = Outcome("")
                       /\ tasks' = Append(tasks,
                              NewTask(MqttUpdate(topic, payload)))
                       /\ stayed' = Append(stayed, {})
       /\ loop_alive' = (call'.outcome = "" \/ Caught(call'.outcome))
       /\ UNCHANGED <<published, irrigation_events, connected_clients,
                      sessions, received, outbox, smart_runs,
                      irrigation_schedules, scheduler, ml_model, mqttUp,
                      ncalls>>

OnMqttMessage(messages) ==
    \E m \in messages, loop_running \in BOOLEAN :
        on_mqtt_message(m.topic, m.payload, loop_running)

Ingest == OnMqttMessage(InboundMessages)

\* ValveStatus with the rows ordered by timestamp ascending
ValveStatusOldest(i) ==
    LET state == OldestRow(solenoid_states,
                    {k \in 1..Len(solenoid_states) :
                        solenoid_states[k].valve_number = i})
    IN IF IsNone(state) THEN FALSE ELSE Val(state).state

\* state.state if state else False, for valve i of get_valves_status
ValveStatus(i) ==
    LET state == LatestRow(solenoid_states,
                    {k \in 1..Len(solenoid_states) :
                        solenoid_states[k].valve_number = i})
    IN IF IsNone(state) THEN FALSE ELSE Val(state).state

get_valves_status ==
    /\ call' = [op |-> "get_valves_status",
                valves |-> [i \in FirstValve..LastValve |-> ValveStatus(i)]]
    /\ call # call'
    /\ UNCHANGED <<published, irrigation_events, solenoid_states,
                   weather_readings, notifier, stayed, nmsgs, others, ml_model, mqttUp,
                   clock, ncalls>>

GetValvesStatus == get_valves_status

NextIngest == Ingest \/ GetValvesStatus

SpecIngest == InitFresh /\ [][NextIngest]_vars

(* ------------------------- WebSocket notifier --------------------------- *)
Elems(list) == {list[i] : i \in 1..Len(list)}
Contains(list, x) == x \in Elems(list)

\* list.remove(x): the first occurrence goes
RECURSIVE RemoveFirst(_, _)
RemoveFirst(list, x) ==
    IF list = <<>> THEN <<>>
    ELSE IF Head(list) = x THEN Tail(list)
    ELSE <<Head(list)>> \o RemoveFirst(Tail(list), x)

\* for client in disconnected: if client in connected_clients: remove it
RECURSIVE Cleanup(_, _)
Cleanup(clients, disconnected) ==
    IF disconnected = <<>> THEN clients
    ELSE Cleanup(IF Contains(clients, Head(disconnected))
                 THEN RemoveFirst(clients, Head(disconnected))
                 ELSE clients,
                 Tail(disconnected))

\* The list iterator of "for client in connected_clients": it holds an index
\* into the list itself and stops when the index reaches the current length.
\* The task runs from where it was resumed to its next await or to its end.
Resume(task) ==
    IF task.pos < Len(connected_clients)
    THEN [task EXCEPT !.phase = "sending",
                      !.pos = @ + 1,
                      !.target = connected_clients[task.pos + 1],
                      !.attempted = @ \cup {connected_clients[task.pos + 1]}]
    ELSE [task EXCEPT !.phase = "done", !.target = ""]

\* what the list is after the task ran on from its resumption
ClientsAfter(task) ==
    IF Resume(task).phase = "done"
    THEN Cleanup(connected_clients, task.disconnected)
    ELSE connected_clients

\* websockets that were in the list ever since each running task started
StillListed(clients) == [j \in 1..Len(stayed) |-> stayed[j] \cap Elems(clients)]

\* A websocket writes its frames in the order of the send_json calls, and
\* the calls return in that order: the task k that now waits in a send joins
\* the queue of its target.
Enqueue(box, k, task) ==
    IF task.phase = "sending"
    THEN [box EXCEPT ![task.target] = Append(@, k)]
    ELSE box

\* the event loop starts tasks in the order they were created
TaskStart(k) ==
    /\ tasks[k].phase = "created"
    /\ \A j \in 1..(k - 1) : tasks[j].phase # "created"
    /\ tasks' = [tasks EXCEPT ![k] = Resume(tasks[k])]
    /\ connected_clients' = ClientsAfter(tasks[k])
    /\ stayed' = [StillListed(connected_clients') EXCEPT
                    ![k] = Elems(connected_clients)]
    /\ outbox' = Enqueue(outbox, k, tasks'[k])
    /\ UNCHANGED <<published, irrigation_events, solenoid_states,
                   weather_readings, sessions, received, nmsgs, loop_alive,
                   smart_runs, irrigation_schedules, scheduler, ml_model,
                   mqttUp, clock, ncalls, call>>

\* await client.send_json(message) returns, or raises
SendReturn(k, ok) ==
    LET t == tasks[k]
        after == IF ok THEN t
                 ELSE [t EXCEPT !.disconnected = Append(@, t.target)]
    IN /\ t.phase = "sending"
       /\ Head(outbox[t.target]) = k
       /\ ok => sessions[t.target] = "open"
       /\ received' = IF ok
                      THEN [received EXCEPT ![t.target] = Append(@, t.message)]
                      ELSE received
       /\ tasks' = [tasks EXCEPT ![k] = Resume(after)]
       /\ connected_clients' = ClientsAfter(after)
       /\ stayed' = StillListed(connected_clients')
       /\ outbox' = Enqueue([outbox EXCEPT ![t.target] = Tail(@)], k, tasks'[k])
       /\ UNCHANGED <<published, irrigation_events, solenoid_states,
                      weather_readings, sessions, nmsgs, loop_alive,
                      smart_runs, irrigation_schedules, scheduler, ml_model,
                      mqttUp, clock, ncalls, call>>

NotifyStart == \E k \in 1..Len(tasks) : TaskStart(k)
NotifySend == \E k \in 1..Len(tasks), ok \in BOOLEAN : SendReturn(k, ok)

\* websocket_endpoint up to its receive loop
WsConnect(o) ==
    /\ sessions[o] = "new"
    /\ sessions' = [sessions EXCEPT ![o] = "open"]
    /\ connected_clients' = Append(connected_clients, o)
    /\ UNCHANGED <<published, irrigation_events, solenoid_states,
                   weather_readings, tasks, received, stayed, nmsgs, others, ml_model,
                   mqttUp, clock, ncalls, call>>

\* receive_text raises WebSocketDisconnect; remove raises ValueError when a
\* notify_clients task has taken the websocket out of the list already
WsDisconnect(o) ==
    /\ sessions[o] = "open"
    /\ sessions' = [sessions EXCEPT ![o] = "closed"]
    /\ connected_clients' = IF Contains(connected_clients, o)
                            THEN RemoveFirst(connected_clients, o)
                            ELSE connected_clients
    /\ stayed' = StillListed(connected_clients')
    /\ UNCHANGED <<published, irrigation_events, solenoid_states,
                   weather_readings, tasks, received, nmsgs, others, ml_model, mqttUp,
                   clock, ncalls, call>>

Connect == \E o \in Observers : WsConnect(o)
Disconnect == \E o \in Observers : WsDisconnect(o)

AlertMessages ==
    {Message(Topic(MainDevice, "alerts"), p) : p \in AlertPayloads}

IngestAlert == OnMqttMessage(AlertMessages)

NextNotify ==
    \/ IngestAlert
    \/ Connect
    \/ Disconnect
    \/ NotifyStart
    \/ NotifySend

SpecNotify == InitFresh /\ [][NextNotify]_vars

(* ------------------------ claims on the dispatcher ---------------------- *)
\* this step is one API call; call' describes it
ApiStep == ncalls' = ncalls + 1

\* the publish calls and the events this step added
NewPublished == SubSeq(published', Len(published) + 1, Len(published'))
NewEvents ==
    SubSeq(irrigation_events', Len(irrigation_events) + 1, Len(irrigation_events'))
KeepsLogs ==
    /\ Len(published') >= Len(published)
    /\ SubSeq(published', 1, Len(published)) = published
    /\ Len(irrigation_events') >= Len(irrigation_events)
    /\ SubSeq(irrigation_events', 1, Len(irrigation_events)) = irrigation_events

\* C1: control_valve with a valve number outside [1, 10], on or off, is
\* rejected (HTTP 400) and publishes nothing and appends no IrrigationEvent.
C1_OutOfRangeRejected ==
    [][(ApiStep /\ call'.op = "control_valve"
            /\ (call'.valve < 1 \/ call'.valve > 10))
        => /\ call'.status = 400
           /\ published' = published
           /\ irrigation_events' = irrigation_events]_vars

\* valve 11 was refused after an earlier command had gone out
C1_Witness ==
    /\ call.op = "control_valve"
    /\ call.valve = 11
    /\ call.status = 400
    /\ Len(published) = 1
    /\ Len(irrigation_events) = 1

\* C5: smart_irrigation dispatches according to the Decision it returns: if
\* should_irrigate, one valve_on publish per valve of valves_to_open, each
\* valve once, and one IrrigationEvent for the zone; otherwise no publish and
\* no event.
C5_SmartDispatchFollowsDecision ==
    [][(ApiStep /\ call'.op = "smart_irrigation" /\ call'.status = 200)
        => LET d == call'.decision
               valves == {d.valves_to_open[i] : i \in 1..Len(d.valves_to_open)}
           IN /\ KeepsLogs
              /\ IF d.should_irrigate
                 THEN /\ Len(NewPublished) = Cardinality(valves)
                      /\ \A i \in 1..Len(NewPublished) :
                            NewPublished[i].payload.action = "valve_on"
                      /\ \A v \in valves :
                            Cardinality({i \in 1..Len(NewPublished) :
                                NewPublished[i].payload.valve = v}) = 1
                      /\ Len(NewEvents) = 1
                      /\ NewEvents[1].zone_id = call'.zone_id
                 ELSE /\ NewPublished = <<>>
                      /\ NewEvents = <<>>]_vars

\* a smart call for zone 2 decided to irrigate and its commands went out
C5_Witness ==
    /\ call.op = "smart_irrigation"
    /\ call.status = 200
    /\ call.zone_id = 2
    /\ call.decision.should_irrigate
    /\ Len(published) >= Len(call.decision.valves_to_open)
    /\ Len(call.decision.valves_to_open) >= 2
    /\ irrigation_events # <<>>
    /\ irrigation_events[Len(irrigation_events)].zone_id = 2

\* a publish of this step came back with an error code
PublishFailed ==
    \E i \in 1..Len(NewPublished) : NewPublished[i].rc # "MQTT_ERR_SUCCESS"

\* C9: a manual or smart command whose publish fails (no connection) ends in
\* an error for the caller and appends no IrrigationEvent.
C9_FailedPublishLogsNothing ==
    [][(ApiStep /\ call'.op \in {"control_valve", "smart_irrigation"}
            /\ PublishFailed)
        => /\ call'.status # 200
           /\ irrigation_events' = irrigation_events]_vars

\* this API step dispatched a valve-changing action and every publish of it
\* succeeded
DispatchedStateChange ==
    /\ ApiStep
    /\ call'.status = 200
    /\ \/ call'.op \in {"control_valve", "all_valves_off"}
       \/ call'.op = "smart_irrigation" /\ call'.decision.should_irrigate
    /\ NewPublished # <<>>
    /\ ~PublishFailed

\* C10: every step appends one IrrigationEvent if it is a successfully
\* dispatched valve-changing action (manual on, manual off, smart dispatch,
\* all_valves_off) and none otherwise, so that the number of events equals
\* the number of such actions.
C10_OneEventPerDispatchedAction ==
    [][/\ KeepsLogs
       /\ Len(NewEvents) = IF DispatchedStateChange THEN 1 ELSE 0]_vars

(* ------------------------ claims on the ingestion ----------------------- *)
\* this step is one call of on_mqtt_message; call' describes it
MqttStep == nmsgs' = nmsgs + 1 /\ call'.op = "on_mqtt_message"

\* the step handled a status message and committed its rows
StatusSaved ==
    /\ MqttStep
    /\ call'.payload.json = "object"
    /\ call'.handled_as = "status"
    /\ call'.outcome \in {"", "RuntimeError"}

BatchOf(payload) == IF IsNone(payload.valves) THEN <<>> ELSE Val(payload.valves)
Mentions(batch, v) == {i \in 1..Len(batch) : batch[i].number = Some(v)}
LastMention(batch, v) ==
    CHOOSE i \in Mentions(batch, v) : \A j \in Mentions(batch, v) : j <= i

\* C7: the state get_valves_status returns for a valve is the one reported
\* for it by the last status message saved that mentions it: a saved status
\* message sets the state of each valve it mentions (the last entry for the
\* valve, when a batch names it more than once), and no other step changes
\* the state returned for any valve.
C7_LastReportedStateWins ==
    [][\A v \in 1..10 :
        ValveStatus(v)' =
            IF StatusSaved /\ Mentions(BatchOf(call'.payload), v) # {}
            THEN LET batch == BatchOf(call'.payload)
                 IN batch[LastMention(batch, v)].state = Some("ON")
            ELSE ValveStatus(v)]_vars

\* valve 3 was reported ON, then a batch for valves 4 and 3 reported it OFF
C7_Witness ==
    /\ call.op = "on_mqtt_message"
    /\ call.payload = StatusObject(Some(<<Off4, Off3>>))
    /\ call.outcome = ""
    /\ \E i \in 1..Len(solenoid_states) :
          solenoid_states[i].valve_number = 3 /\ solenoid_states[i].state
    /\ ~ValveStatus(3)
    /\ ~ValveStatus(4)

\* C8: every inbound message that decodes makes on_mqtt_message hand exactly
\* one mqtt_update event with its topic and data to notify_clients, also when
\* saving the message failed.
C8_EveryDecodedMessageNotified ==
    [][(MqttStep /\ call'.payload.json # "invalid")
        => tasks' = Append(tasks,
                NewTask(MqttUpdate(call'.topic, call'.payload)))]_vars

(* ------------------------ claims on the notifier ------------------------ *)
\* task k ends in this step, after at least one send of it failed
EndsAfterFailure(k) ==
    /\ tasks[k].phase # "done"
    /\ tasks'[k].phase = "done"
    /\ tasks'[k].disconnected # <<>>

\* C6: when a send of a broadcast fails, the websocket it failed for is out
\* of connected_clients when the broadcast ends, the broadcast has tried every
\* other websocket that was listed from its start to its end, and it removes
\* no websocket but those its sends failed for.
C6_FailureRemovesOnlyTheFailed ==
    [][\A k \in 1..Len(tasks) :
        EndsAfterFailure(k) =>
            LET failed == Elems(tasks'[k].disconnected)
            IN /\ failed \cap Elems(connected_clients') = {}
               /\ stayed'[k] \subseteq tasks'[k].attempted
               /\ Elems(connected_clients) \ failed
                    \subseteq Elems(connected_clients')]_vars

(* ------------------------- claims on ingestion, II ---------------------- *)
\* C11: on_mqtt_message never raises into paho's network thread, and a
\* message whose handling failed, in parsing or anywhere after it, leaves no
\* valve state and no weather reading in the store; the thread stays alive
\* for the next message.
C11_FailedMessageLeavesNoTrace ==
    [][(MqttStep /\ call'.outcome # "")
        => /\ loop_alive'
           /\ solenoid_states' = solenoid_states
           /\ weather_readings' = weather_readings]_vars

\* C13: every stored weather reading has its humidity within [0, 100] and a
\* rain amount that is not negative; a message with another value is not
\* stored.
C13_StoredWeatherIsValid ==
    \A i \in 1..Len(weather_readings) :
        LET w == weather_readings[i].values
        IN /\ ~IsNone(w.humidity) => Val(w.humidity) \in 0..100
           /\ ~IsNone(w.rain_1h) => Val(w.rain_1h) >= 0

(* ------------------------- claims on the notifier, II ------------------- *)
\* where websocket o got message m
Position(o, m) == CHOOSE i \in 1..Len(received[o]) : received[o][i] = m

\* C12: a websocket that received the messages of two notify_clients calls
\* received them in the order of the calls (tasks holds the calls in their
\* order), also when the two tasks overlap.
C12_PerObserverFifo ==
    \A o \in Observers, k1, k2 \in 1..Len(tasks) :
        (/\ k1 < k2
         /\ tasks[k1].message # tasks[k2].message
         /\ Contains(received[o], tasks[k1].message)
         /\ Contains(received[o], tasks[k2].message))
        => Position(o, tasks[k1].message) < Position(o, tasks[k2].message)

\* task k runs to its end in this step
Ends(k) == tasks[k].phase # "done" /\ tasks'[k].phase = "done"

\* C20: a notify_clients call has tried to send to every websocket that was
\* in connected_clients from its start to its end, also when other
\* websockets left the list while it waited in a send.
C20_NoListedObserverSkipped ==
    [][\A k \in 1..Len(tasks) :
        Ends(k) => stayed'[k] \subseteq tasks'[k].attempted]_vars

(* ---------------------- claims on the decision, II --------------------- *)
\* the last operation was decide with a model whose predict call raised
PredictFailed ==
    /\ call.op = "decide"
    /\ ~IsNone(call.model)
    /\ Predict(Val(call.model), Features(call.weather)).raised

\* C14: when a model is configured and its predict call raises, the decision
\* is the one the heuristic rules give with no model, and no exception
\* reaches the caller.
C14_PredictErrorFallsBack ==
    PredictFailed =>
        /\ Returned(call.result)
        /\ call.result =
             make_irrigation_decision(call.weather, call.last_irrigation, None)

\* rows of table farm_zones: the valves of each zone
farm_zones == [z \in Zones |-> IF z = 1 THEN {1, 2, 3} ELSE {4, 5}]

\* C17: with a model configured, the decision smart_irrigation gets for a
\* zone opens exactly the valves of that zone, for 30 minutes.
C17_MlValvesAreTheZones ==
    (call.op = "smart_irrigation" /\ call.status = 200 /\ ~IsNone(ml_model))
    => /\ Elems(call.decision.valves_to_open) = farm_zones[call.zone_id]
       /\ call.decision.duration_minutes = MlDuration

(* ---------------------- claims on the dispatcher, II ------------------- *)
\* C19: every published command that names a valve names one of the valves
\* 1 to 10, whether it comes from control_valve, smart_irrigation or
\* schedule_irrigation.
C19_PublishedValveInRange ==
    \A i \in 1..Len(published) :
        "valve" \in DOMAIN published[i].payload
        => published[i].payload.valve \in FirstValve..LastValve

(* ----------------------- claims on the periodic tasks ------------------ *)
\* this step is one round of the advisor, of the weather task
AdvisorStep == scheduler'.advisor_fires = scheduler.advisor_fires + 1
WeatherStep == scheduler'.weather_fires = scheduler.weather_fires + 1

\* C15: every round of ml_irrigation_advisor runs smart_irrigation once for
\* each zone.
C15_AdvisorEvaluatesEveryZone ==
    [][AdvisorStep
        => \A z \in Zones : smart_runs'[z] = smart_runs[z] + 1]_vars

\* C16: every round of weather_scheduler publishes exactly one
\* read_weather_now command and leaves the task sleeping again, whatever
\* the publish returned; only the end of the process takes the task out of
\* its sleep for good; and while the process runs every round is followed
\* by another one.
C16_WeatherTimerKeepsFiring ==
    /\ [][WeatherStep
            => /\ Len(published') = Len(published) + 1
               /\ published'[Len(published')].payload.action = "read_weather_now"
               /\ scheduler'.weather_task = "sleeping"]_vars
    /\ [][(scheduler.weather_task = "sleeping"
                /\ scheduler'.weather_task # "sleeping")
            => (scheduler.running /\ ~scheduler'.running)]_vars
    /\ \A n \in 1..(MaxFires - 1) :
            (scheduler.weather_fires = n)
                ~> (scheduler.weather_fires = n + 1 \/ ~scheduler.running)

\* a round whose publish found no connection was followed by another round
C16_Witness ==
    /\ scheduler.running
    /\ scheduler.weather_task = "sleeping"
    /\ \E i \in 1..(Len(published) - 1) :
            /\ published[i].payload.action = "read_weather_now"
            /\ published[i].rc = "MQTT_ERR_NO_CONN"
            /\ published[i + 1].payload.action = "read_weather_now"

(* --------------------------- the whole program -------------------------- *)
Next ==
    \/ NextDispatch
    \/ NextIngest
    \/ NextNotify
    \/ NextSched

Spec == Init /\ [][Next]_vars

====
